---- MODULE Spec2Model ----
(***************************************************************************)
(* Model of app.py, the Streamlit glucose monitor: the session state, the  *)
(* Google Sheets reading log, the classifier get_feedback and one action   *)
(* per script run (login page, OAuth return, each page, logout).           *)
(* Strings are the source's strings without diacritics and emoji.          *)
(***************************************************************************)
EXTENDS Integers, Sequences, FiniteSets, TLC

VARIABLES
    authenticated,   \* st.session_state.authenticated
    user_email,      \* st.session_state.user_email
    credentials,     \* st.session_state.credentials
    sheet,           \* st.session_state.sheet
    hasCode,         \* "code" in st.query_params
    spreadsheetExists, \* the spreadsheet "Monitor Glicemie - Date Personale" exists in Drive
    log,             \* the data rows of its sheet1, below the header row
    view,            \* what the last script run put on the page
    op,              \* the last operation taken
    edited           \* the owner has edited the sheet directly

vars == <<authenticated, user_email, credentials, sheet, hasCode,
          spreadsheetExists, log, view, op, edited>>

session == <<authenticated, user_email, credentials, sheet>>

-----------------------------------------------------------------------------
(* Bounds of the model *)

MaxLog == 2

MaxValue == 300

-----------------------------------------------------------------------------
(* Values of the program *)

None == "None"

FASTING == "Pe nemancate"

POST_MEAL == "Dupa masa (2 ore)"

RANDOM == "Verificare aleatorie"

UNRECOGNIZED == "Altceva"

FormContexts == <<FASTING, POST_MEAL, RANDOM>>

Contexts == {FASTING, POST_MEAL, RANDOM, UNRECOGNIZED}

Tones == {"good", "neutral", "warning", "alert", "urgent"}

Header == <<"Data", "Ora", "Valoare", "Tip Masurare", "Feedback", "Ton", "Note">>

MsgHypo == "Hipoglicemie! Consuma imediat 15g carbohidrati rapizi. Verifica din nou in 15 minute."

MsgHyper == "Hiperglicemie severa! Bea apa si contacteaza medicul daca nu scade in 2 ore."

MsgSuccess == "Citire salvata cu succes in Google Sheets!"

MsgSaveError == "Eroare la salvarea datelor"

MsgSheetsError == "Eroare la conectarea cu Google Sheets"

MsgAuthError == "Eroare la autentificare"

\* Integers handed to the classifier when it is checked on its own.
Values == (0 - MaxValue)..MaxValue

\* Values the number_input of the form can hold (min_value=20, max_value=600).
FormMin == 20

FormMax == 600

FormValues == {v \in {65, 95, 150} : FormMin <= v /\ v <= FormMax}

Notes == {""}

Dates == {"2025-01-01"}

Times == {"08:00"}

Emails == {"user@example.com"}

-----------------------------------------------------------------------------
(* get_feedback(value, measurement_type): <<message, tone>> *)

\* Variants of get_feedback with one comparison or branch changed.
get_feedback_low_inclusive(value, measurement_type) ==
    IF value <= 70 THEN <<MsgHypo, "urgent">>
    ELSE IF value > 250 THEN <<MsgHyper, "urgent">>
    ELSE IF measurement_type = FASTING THEN
        IF value <= 99 THEN <<"Control glicemic excelent! Continua asa!", "good">>
        ELSE IF value <= 125 THEN <<"Valoare la limita. Atentie la dieta si miscare.", "warning">>
        ELSE <<"Glicemie crescuta. Consulta medicul pentru ajustari.", "alert">>
    ELSE IF measurement_type = POST_MEAL THEN
        IF value < 140 THEN <<"Excelent! Masa a fost bine tolerata.", "good">>
        ELSE IF value < 180 THEN <<"In limite acceptabile.", "neutral">>
        ELSE <<"Prea mare dupa masa. Redu carbohidratii.", "alert">>
    ELSE
        IF value < 140 THEN <<"Valoare normala.", "neutral">>
        ELSE <<"Valoare crescuta. Monitorizeaza mai atent.", "warning">>

get_feedback_fasting_strict(value, measurement_type) ==
    IF value < 70 THEN <<MsgHypo, "urgent">>
    ELSE IF value > 250 THEN <<MsgHyper, "urgent">>
    ELSE IF measurement_type = FASTING THEN
        IF value <= 99 THEN <<"Control glicemic excelent! Continua asa!", "good">>
        ELSE IF value < 125 THEN <<"Valoare la limita. Atentie la dieta si miscare.", "warning">>
        ELSE <<"Glicemie crescuta. Consulta medicul pentru ajustari.", "alert">>
    ELSE IF measurement_type = POST_MEAL THEN
        IF value < 140 THEN <<"Excelent! Masa a fost bine tolerata.", "good">>
        ELSE IF value < 180 THEN <<"In limite acceptabile.", "neutral">>
        ELSE <<"Prea mare dupa masa. Redu carbohidratii.", "alert">>
    ELSE
        IF value < 140 THEN <<"Valoare normala.", "neutral">>
        ELSE <<"Valoare crescuta. Monitorizeaza mai atent.", "warning">>

get_feedback_postmeal_inclusive(value, measurement_type) ==
    IF value < 70 THEN <<MsgHypo, "urgent">>
    ELSE IF value > 250 THEN <<MsgHyper, "urgent">>
    ELSE IF measurement_type = FASTING THEN
        IF value <= 99 THEN <<"Control glicemic excelent! Continua asa!", "good">>
        ELSE IF value <= 125 THEN <<"Valoare la limita. Atentie la dieta si miscare.", "warning">>
        ELSE <<"Glicemie crescuta. Consulta medicul pentru ajustari.", "alert">>
    ELSE IF measurement_type = POST_MEAL THEN
        IF value < 140 THEN <<"Excelent! Masa a fost bine tolerata.", "good">>
        ELSE IF value <= 180 THEN <<"In limite acceptabile.", "neutral">>
        ELSE <<"Prea mare dupa masa. Redu carbohidratii.", "alert">>
    ELSE
        IF value < 140 THEN <<"Valoare normala.", "neutral">>
        ELSE <<"Valoare crescuta. Monitorizeaza mai atent.", "warning">>

get_feedback_random_by_label(value, measurement_type) ==
    IF value < 70 THEN <<MsgHypo, "urgent">>
    ELSE IF value > 250 THEN <<MsgHyper, "urgent">>
    ELSE IF measurement_type = FASTING THEN
        IF value <= 99 THEN <<"Control glicemic excelent! Continua asa!", "good">>
        ELSE IF value <= 125 THEN <<"Valoare la limita. Atentie la dieta si miscare.", "warning">>
        ELSE <<"Glicemie crescuta. Consulta medicul pentru ajustari.", "alert">>
    ELSE IF measurement_type = POST_MEAL THEN
        IF value < 140 THEN <<"Excelent! Masa a fost bine tolerata.", "good">>
        ELSE IF value < 180 THEN <<"In limite acceptabile.", "neutral">>
        ELSE <<"Prea mare dupa masa. Redu carbohidratii.", "alert">>
    ELSE IF measurement_type = RANDOM THEN
        IF value < 140 THEN <<"Valoare normala.", "neutral">>
        ELSE <<"Valoare crescuta. Monitorizeaza mai atent.", "warning">>
    ELSE <<"Tip de masurare necunoscut.", "neutral">>

get_feedback(value, measurement_type) ==
    IF value < 70 THEN <<MsgHypo, "urgent">>
    ELSE IF value > 250 THEN <<MsgHyper, "urgent">>
    ELSE IF measurement_type = FASTING THEN
        IF value <= 99 THEN <<"Control glicemic excelent! Continua asa!", "good">>
        ELSE IF value <= 125 THEN <<"Valoare la limita. Atentie la dieta si miscare.", "warning">>
        ELSE <<"Glicemie crescuta. Consulta medicul pentru ajustari.", "alert">>
    ELSE IF measurement_type = POST_MEAL THEN
        IF value < 140 THEN <<"Excelent! Masa a fost bine tolerata.", "good">>
        ELSE IF value < 180 THEN <<"In limite acceptabile.", "neutral">>
        ELSE <<"Prea mare dupa masa. Redu carbohidratii.", "alert">>
    ELSE
        IF value < 140 THEN <<"Valoare normala.", "neutral">>
        ELSE <<"Valoare crescuta. Monitorizeaza mai atent.", "warning">>

-----------------------------------------------------------------------------
(* Helpers *)

RECURSIVE SumValues(_)
SumValues(rows) ==
    IF rows = <<>> THEN 0 ELSE rows[1][3] + SumValues(Tail(rows))

\* f"{x:.0f}" of the quotient num/den, den > 0: round to nearest, ties to even.
FormatRounded(num, den) ==
    LET q == num \div den
        r == num % den
    IN IF 2 * r < den THEN q
       ELSE IF 2 * r > den THEN q + 1
       ELSE IF q % 2 = 0 THEN q ELSE q + 1

\* Column of a record by the header's name, as get_all_records keys it.
Column(name) == CHOOSE i \in 1..Len(Header) : Header[i] = name

IsPrefix(s, t) == Len(s) <= Len(t) /\ SubSeq(t, 1, Len(s)) = s

NoView ==
    [page |-> "none", messages |-> {}, value |-> 0, context |-> None,
     feedback |-> None, tone |-> None, style |-> None, classified |-> 0,
     total |-> 0, mean |-> 0, percentage |-> 0]

Page(name, messages) == [NoView EXCEPT !.page = name, !.messages = messages]

\* The st.success / st.warning / st.error / st.info choice of show_add_reading_page.
FeedbackStyle(tone) ==
    IF tone = "good" THEN "success"
    ELSE IF tone = "warning" THEN "warning"
    ELSE IF tone = "alert" \/ tone = "urgent" THEN "error"
    ELSE "info"

\* get_all_readings(): the rows of sheet1, or an empty frame on any exception
\* (no sheet in the session, or the read fails).
get_all_readings(readOk) ==
    IF sheet # None /\ readOk THEN log ELSE <<>>

\* Variant: the tone recomputed from each row's value and context.
good_readings_recomputed(df) ==
    Cardinality({i \in 1..Len(df) :
        get_feedback(df[i][Column("Valoare")], df[i][Column("Tip Masurare")])[2] = "good"})

\* len(df[df['Ton'] == 'good'])
good_readings(df) ==
    Cardinality({i \in 1..Len(df) : df[i][Column("Ton")] = "good"})

-----------------------------------------------------------------------------
(* Initial state: lines 26-31, nothing in Drive yet *)

Init ==
    /\ authenticated = FALSE
    /\ user_email = None
    /\ credentials = None
    /\ sheet = None
    /\ hasCode = FALSE
    /\ spreadsheetExists = FALSE
    /\ log = <<>>
    /\ view = NoView
    /\ op = "init"
    /\ edited = FALSE

-----------------------------------------------------------------------------
(* Script runs *)

\* A browser load of the app's URL starts a new session (lines 26-31) and
\* runs main() with no code in the URL: the login page.  The same page is
\* rendered by any rerun of a session that is not authenticated.
RenderLogin(fresh) ==
    /\ fresh \/ (~authenticated /\ ~hasCode)
    /\ authenticated' = FALSE
    /\ user_email' = (IF fresh THEN None ELSE user_email)
    /\ credentials' = (IF fresh THEN None ELSE credentials)
    /\ sheet' = (IF fresh THEN None ELSE sheet)
    /\ hasCode' = FALSE
    /\ view' = Page("login", {})
    /\ op' = "login_page"
    /\ UNCHANGED <<spreadsheetExists, log, edited>>

\* check_authentication with a code in the URL: flow.fetch_token raises.
\* st.error, st.stop; nothing was assigned yet.
OAuthTokenError(fresh) ==
    /\ fresh \/ hasCode
    /\ authenticated' = (IF fresh THEN FALSE ELSE authenticated)
    /\ user_email' = (IF fresh THEN None ELSE user_email)
    /\ credentials' = (IF fresh THEN None ELSE credentials)
    /\ sheet' = (IF fresh THEN None ELSE sheet)
    /\ hasCode' = TRUE
    /\ view' = Page("stopped", {MsgAuthError})
    /\ op' = "oauth_token_error"
    /\ UNCHANGED <<spreadsheetExists, log, edited>>

\* The token exchange succeeds (lines 75-82), the userinfo request raises:
\* authenticated and credentials are already set, the code stays in the URL.
OAuthUserInfoError(fresh) ==
    /\ fresh \/ hasCode
    /\ authenticated' = TRUE
    /\ credentials' = "credentials"
    /\ user_email' = (IF fresh THEN None ELSE user_email)
    /\ sheet' = (IF fresh THEN None ELSE sheet)
    /\ hasCode' = TRUE
    /\ view' = Page("stopped", {MsgAuthError})
    /\ op' = "oauth_userinfo_error"
    /\ UNCHANGED <<spreadsheetExists, log, edited>>

\* The exchange and the userinfo request succeed; init_google_sheets either
\* opens (or creates, with its header row) the spreadsheet, or raises and
\* reports the error itself.  main() goes on to the default page, the form.
OAuthSuccess(fresh, email, sheetsOk) ==
    /\ fresh \/ hasCode
    /\ authenticated' = TRUE
    /\ credentials' = "credentials"
    /\ user_email' = email
    /\ hasCode' = FALSE
    /\ IF sheetsOk
         THEN /\ sheet' = "spreadsheet"
              /\ spreadsheetExists' = TRUE
              /\ view' = Page("add", {})
         ELSE /\ sheet' = (IF fresh THEN None ELSE sheet)
              /\ spreadsheetExists' = spreadsheetExists
              /\ view' = Page("add", {MsgSheetsError})
    /\ op' = "oauth_success"
    /\ UNCHANGED <<log, edited>>

\* Variant: the logout that clears the credentials and the sheet only.
Logout_keeps_flag ==
    /\ authenticated /\ ~hasCode
    /\ credentials' = None
    /\ sheet' = None
    /\ hasCode' = FALSE
    /\ view' = Page("add", {})
    /\ op' = "logout"
    /\ UNCHANGED <<authenticated, user_email, spreadsheetExists, log, edited>>

\* The sidebar's logout button (lines 309-314), then the rerun's login page.
Logout ==
    /\ authenticated /\ ~hasCode
    /\ authenticated' = FALSE
    /\ credentials' = None
    /\ sheet' = None
    /\ hasCode' = FALSE
    /\ view' = Page("login", {})
    /\ op' = "logout"
    /\ UNCHANGED <<user_email, spreadsheetExists, log, edited>>

\* Variant: message and tone stored in each other's column.
save_glucose_reading_swapped(value, measurement_type, notes, date, time, appendOk) ==
    LET fb == get_feedback(value, measurement_type)
        record == <<date, time, value, measurement_type, fb[2], fb[1], notes>>
        saved == sheet # None /\ appendOk
    IN [feedback |-> fb[1], tone |-> fb[2], saved |-> saved,
        rows |-> IF saved THEN Append(log, record) ELSE log]

\* Variant: the new row inserted at the top of the sheet's data.
save_glucose_reading_on_top(value, measurement_type, notes, date, time, appendOk) ==
    LET fb == get_feedback(value, measurement_type)
        record == <<date, time, value, measurement_type, fb[1], fb[2], notes>>
        saved == sheet # None /\ appendOk
    IN [feedback |-> fb[1], tone |-> fb[2], saved |-> saved,
        rows |-> IF saved THEN <<record>> \o log ELSE log]

\* save_glucose_reading: the record built from one get_feedback call, and
\* whether worksheet.append_row appended it.
save_glucose_reading(value, measurement_type, notes, date, time, appendOk) ==
    LET fb == get_feedback(value, measurement_type)
        record == <<date, time, value, measurement_type, fb[1], fb[2], notes>>
        saved == sheet # None /\ appendOk
    IN [feedback |-> fb[1], tone |-> fb[2], saved |-> saved,
        rows |-> IF saved THEN Append(log, record) ELSE log]

\* The add-reading page with the form submitted (lines 369-385).
SubmitReading(value, measurement_type, notes, date, time, appendOk) ==
    LET r == save_glucose_reading(value, measurement_type, notes, date, time, appendOk)
    IN /\ authenticated /\ ~hasCode
       /\ r.saved => Len(log) < MaxLog
       /\ log' = r.rows
       /\ view' = [Page("add", (IF r.saved THEN {} ELSE {MsgSaveError}) \cup {MsgSuccess})
                     EXCEPT !.value = value, !.context = measurement_type,
                            !.feedback = r.feedback, !.style = FeedbackStyle(r.tone),
                            !.classified = 1]
       /\ op' = "save"
       /\ UNCHANGED <<session, hasCode, spreadsheetExists, edited>>

\* The add-reading page rendered without a submission.
ShowAddReadingPage ==
    /\ authenticated /\ ~hasCode
    /\ view' = Page("add", {})
    /\ op' = "add_page"
    /\ UNCHANGED <<session, hasCode, spreadsheetExists, log, edited>>

\* show_history_page: the three metrics come from the frame as read.
ShowHistoryPage(readOk) ==
    LET df == get_all_readings(readOk)
    IN /\ authenticated /\ ~hasCode
       /\ view' = IF df = <<>>
                    THEN Page("history", {"Nu ai inca citiri salvate."})
                    ELSE [Page("history", {"Citiri Recente"})
                            EXCEPT !.total = Len(df),
                                   !.mean = FormatRounded(SumValues(df), Len(df)),
                                   !.percentage = FormatRounded(good_readings(df) * 100, Len(df))]
       /\ op' = "history"
       /\ UNCHANGED <<session, hasCode, spreadsheetExists, log, edited>>

\* show_trends_page: a chart once there are two readings.
ShowTrendsPage(readOk) ==
    LET df == get_all_readings(readOk)
    IN /\ authenticated /\ ~hasCode
       /\ view' = IF Len(df) < 2
                    THEN Page("trends", {"Ai nevoie de cel putin cateva citiri."})
                    ELSE [Page("trends", {"Evolutia Glicemiei"}) EXCEPT !.total = Len(df)]
       /\ op' = "trends"
       /\ UNCHANGED <<session, hasCode, spreadsheetExists, log, edited>>

\* show_settings_page, with or without the CSV export button pressed.
ShowSettingsPage(export, readOk) ==
    LET df == get_all_readings(readOk)
    IN /\ authenticated /\ ~hasCode
       /\ view' = [Page("settings",
                        (IF export /\ df # <<>> THEN {"Salveaza CSV"} ELSE {})
                        \cup (IF sheet # None THEN {"Deschide foaia de calcul direct"} ELSE {}))
                     EXCEPT !.total = IF export THEN Len(df) ELSE 0]
       /\ op' = IF export THEN "export" ELSE "settings"
       /\ UNCHANGED <<session, hasCode, spreadsheetExists, log, edited>>

\* A call of get_feedback on its own, its arguments and result put in view.
GetFeedback(value, measurement_type) ==
    LET fb == get_feedback(value, measurement_type)
    IN /\ view' = [Page("get_feedback", {})
                     EXCEPT !.value = value, !.context = measurement_type,
                            !.feedback = fb[1], !.tone = fb[2], !.classified = 1]
       /\ op' = "get_feedback"
       /\ UNCHANGED <<session, hasCode, spreadsheetExists, log, edited>>

\* The owner edits the Ton cell of a row in Google Sheets directly
\* (the settings page offers the link and says the app reads such changes).
EditSheetDirectly(i, tone) ==
    /\ spreadsheetExists
    /\ ~edited
    /\ i \in 1..Len(log)
    /\ log[i][Column("Ton")] # tone
    /\ log' = [log EXCEPT ![i][Column("Ton")] = tone]
    /\ edited' = TRUE
    /\ op' = "edit"
    /\ UNCHANGED <<session, hasCode, spreadsheetExists, view>>

Next ==
    \/ \E fresh \in BOOLEAN : RenderLogin(fresh)
    \/ \E fresh \in BOOLEAN : OAuthTokenError(fresh)
    \/ \E fresh \in BOOLEAN : OAuthUserInfoError(fresh)
    \/ \E fresh \in BOOLEAN, email \in Emails, sheetsOk \in BOOLEAN :
          OAuthSuccess(fresh, email, sheetsOk)
    \/ Logout
    \/ \E value \in FormValues, i \in 1..Len(FormContexts), notes \in Notes,
          date \in Dates, time \in Times, appendOk \in BOOLEAN :
          SubmitReading(value, FormContexts[i], notes, date, time, appendOk)
    \/ ShowAddReadingPage
    \/ \E readOk \in BOOLEAN : ShowHistoryPage(readOk)
    \/ \E readOk \in BOOLEAN : ShowTrendsPage(readOk)
    \/ \E export \in BOOLEAN, readOk \in BOOLEAN : ShowSettingsPage(export, readOk)
    \/ \E i \in 1..MaxLog, tone \in Tones : EditSheetDirectly(i, tone)

Spec == Init /\ [][Next]_vars

\* The classifier on its own, over every integer of Values and every context.
NextClassify == \E value \in Values, c \in Contexts : GetFeedback(value, c)

SpecClassify == Init /\ [][NextClassify]_vars

-----------------------------------------------------------------------------
(* The classifier: C1 - C4, checked under SpecClassify *)

Classified == op = "get_feedback"

\* C1: for every integer value and every context, recognized or not, the
\* tone is "urgent" exactly when value < 70 or value > 250; below 70 the
\* message is the hypoglycemia one, above 250 the severe-hyperglycemia one.
C1_UrgentIffOutOfRange ==
    Classified =>
        /\ (view.tone = "urgent") <=> (view.value < 70 \/ view.value > 250)
        /\ view.value < 70 => view.feedback = MsgHypo
        /\ view.value > 250 => view.feedback = MsgHyper

C1_Witness ==
    /\ Classified /\ view.value = 251 /\ view.context = POST_MEAL
    /\ view.tone = "urgent" /\ view.feedback = MsgHyper

\* C2: FASTING, 70 <= value <= 250: good up to 99, warning from 100 to 125,
\* alert from 126; one tone for each value.
C2_FastingBuckets ==
    (Classified /\ view.context = FASTING /\ 70 <= view.value /\ view.value <= 250) =>
        /\ (view.tone = "good") <=> (view.value <= 99)
        /\ (view.tone = "warning") <=> (100 <= view.value /\ view.value <= 125)
        /\ (view.tone = "alert") <=> (view.value >= 126)

C2_Witness ==
    Classified /\ view.context = FASTING /\ view.value = 125 /\ view.tone = "warning"

\* C3: POST_MEAL, 70 <= value <= 250: good below 140, neutral from 140 to
\* 179, alert from 180; one tone for each value.
C3_PostMealBuckets ==
    (Classified /\ view.context = POST_MEAL /\ 70 <= view.value /\ view.value <= 250) =>
        /\ (view.tone = "good") <=> (view.value < 140)
        /\ (view.tone = "neutral") <=> (140 <= view.value /\ view.value <= 179)
        /\ (view.tone = "alert") <=> (view.value >= 180)

C3_Witness ==
    Classified /\ view.context = POST_MEAL /\ view.value = 180 /\ view.tone = "alert"

\* C4: any other context, RANDOM or unrecognized, 70 <= value <= 250:
\* neutral below 140, warning from 140, and an unrecognized context yields
\* the message and tone RANDOM yields for the same value.
C4_RandomFallback ==
    (Classified /\ view.context \notin {FASTING, POST_MEAL}
        /\ 70 <= view.value /\ view.value <= 250) =>
        /\ (view.tone = "neutral") <=> (view.value < 140)
        /\ (view.tone = "warning") <=> (view.value >= 140)
        /\ view.feedback = IF view.value < 140 THEN "Valoare normala."
                           ELSE "Valoare crescuta. Monitorizeaza mai atent."
        /\ <<view.feedback, view.tone>> = get_feedback(view.value, RANDOM)

C4_Witness ==
    Classified /\ view.context = UNRECOGNIZED /\ view.value = 140 /\ view.tone = "warning"

-----------------------------------------------------------------------------
(* The application: C6 - C10, checked under Spec *)

Saved == op = "save" /\ MsgSaveError \notin view.messages

\* A row as save_glucose_reading writes it: date, time, value, context
\* label, message, tone, note, in the header's order, the message and tone
\* being those of the row's own value and context.
WrittenBySave(r) ==
    /\ Len(r) = 7
    /\ r[1] \in Dates /\ Column("Data") = 1
    /\ r[2] \in Times /\ Column("Ora") = 2
    /\ r[3] \in FormMin..FormMax /\ Column("Valoare") = 3
    /\ r[4] \in {FASTING, POST_MEAL, RANDOM} /\ Column("Tip Masurare") = 4
    /\ r[6] \in Tones /\ Column("Feedback") = 5 /\ Column("Ton") = 6
    /\ r[7] \in Notes /\ Column("Note") = 7
    /\ <<r[5], r[6]>> = get_feedback(r[3], r[4])

\* C6: a save makes one classifier call and appends at most one record; the
\* appended record has the seven fields in order, its message and tone being
\* get_feedback of the value and context of that same record.
C6_SaveAppendsClassifiedRecord ==
    [][op' = "save" =>
          /\ view'.classified = 1
          /\ \/ log' = log
             \/ /\ Len(log') = Len(log) + 1
                /\ SubSeq(log', 1, Len(log)) = log
                /\ WrittenBySave(log'[Len(log')])
                /\ log'[Len(log')][3] = view'.value
                /\ log'[Len(log')][4] = view'.context]_vars

C6_Witness ==
    /\ Saved /\ Len(log) = 2 /\ ~edited
    /\ log[2][3] = 150 /\ log[2][4] = POST_MEAL /\ log[2][6] = "neutral"

\* C7: every operation of the application leaves the log as it was or, for a
\* save only, extends it at the end.
C7_AppendOnly ==
    [][op' # "edit" =>
          /\ IsPrefix(log, log')
          /\ log' # log => op' = "save"]_vars

C7_Witness ==
    op = "export" /\ Len(log) = 2 /\ log[1][3] # log[2][3] /\ "Salveaza CSV" \in view.messages

StoredGood == Cardinality({i \in 1..Len(log) : log[i][6] = "good"})

RecomputedGood ==
    Cardinality({i \in 1..Len(log) : get_feedback(log[i][3], log[i][4])[2] = "good"})

HistoryShown == op = "history" /\ view.total > 0

\* C8 as stated: the percentage of good readings on the history page is
\* that of the tones recomputed by get_feedback at render time.
C8_RecomputedAtRender ==
    HistoryShown =>
        view.percentage = FormatRounded(RecomputedGood * 100, Len(log))

\* C8 amended: the history page makes no classifier call; its percentage is
\* that of the rows whose stored Ton is "good", as read at render time, which
\* agrees with get_feedback as long as the sheet was not edited directly.
C8_StoredToneAtRender ==
    HistoryShown =>
        /\ view.classified = 0
        /\ view.total = Len(log)
        /\ view.percentage = FormatRounded(StoredGood * 100, Len(log))
        /\ ~edited => StoredGood = RecomputedGood

C8_Witness ==
    /\ HistoryShown /\ edited /\ Len(log) = 2
    /\ StoredGood = 1 /\ RecomputedGood = 2 /\ view.percentage = 50

\* C9: the success confirmation is shown for a submission only if that
\* submission's record was appended; a failed append leaves the log as it
\* was, reports the error and shows no confirmation.
C9_SuccessOnlyIfAppended ==
    [][op' = "save" =>
          /\ MsgSuccess \in view'.messages => Len(log') = Len(log) + 1
          /\ log' = log => MsgSaveError \in view'.messages]_vars

\* C10: a record is appended only in an authenticated session; the logout
\* clears authenticated, credentials and sheet; and authenticated becomes
\* True only by a successful authorization-code exchange.
C10_WritesOnlyWhenAuthenticated ==
    [][/\ Len(log') > Len(log) => (authenticated /\ authenticated' /\ sheet # None)
       /\ op' = "logout" => (~authenticated' /\ credentials' = None /\ sheet' = None)
       /\ (~authenticated /\ authenticated') =>
              op' \in {"oauth_success", "oauth_userinfo_error"}
       /\ ~authenticated' => sheet' = None]_vars

C10_Witness ==
    /\ Saved /\ authenticated /\ sheet # None /\ Len(log) = 1 /\ log[1][6] = "urgent"

====
